---- MODULE Spec2Model ----
(***************************************************************************)
(* Model of the desktop implementation of tauri-plugin-google-auth         *)
(* (src/src/desktop.rs): the three public operations sign_in, sign_out and *)
(* refresh_token of GoogleAuth, the loopback redirect listener, the        *)
(* browser launch and the worker threads that talk to the provider.        *)
(*                                                                         *)
(* Option<T> values are modelled as sequences: None is <<>> and Some(x) is *)
(* <<x>>.  Every call of a public operation runs in a call slot c.         *)
(***************************************************************************)
EXTENDS Integers, Sequences, FiniteSets, TLC

(***************************************************************************)
(* Bounds of the model                                                     *)
(***************************************************************************)
\* number of ports the operating system can hand out for a bind to port 0
NumEphemeral == 2
\* longest query string (in key=value pairs) of an inbound redirect request
MaxQueryLen == 3

(***************************************************************************)
(* Program constants                                                       *)
(***************************************************************************)
LOCALHOST_ADDR == "127.0.0.1"
DEFAULT_REDIRECT_HOST == "localhost"
SUCCESS_HTML_RESPONSE == "Go back to your app :)"
GOOGLE_AUTH_URL == "https://accounts.google.com/o/oauth2/auth"
GOOGLE_TOKEN_URL == "https://oauth2.googleapis.com/token"
GOOGLE_REVOCATION_URL == "https://oauth2.googleapis.com/revoke"

\* first port of the range the operating system assigns from
EphemeralBase == 49152
EphemeralPorts == EphemeralBase .. (EphemeralBase + NumEphemeral - 1)

(***************************************************************************)
(* Option<T>                                                               *)
(***************************************************************************)
None == <<>>
Some(x) == <<x>>
IsSome(o) == o # <<>>
IsNone(o) == o = <<>>
Unwrap(o) == o[1]

Calls == {1, 2}

(***************************************************************************)
(* Url::parse, Url::host_str and Url::port as used on the redirect URI.    *)
(* A URI text is given by its form and its components:                     *)
(*   "garbage"  text that is no URL at all      ("not a url")              *)
(*   "opaque"   a URL that has no host          ("mailto:someone")         *)
(*   "hier"     scheme://host[:port]                                       *)
(***************************************************************************)
DefaultPort(scheme) ==
    CASE scheme = "http" -> Some(80)
      [] scheme = "https" -> Some(443)
      [] OTHER -> None

\* Url::parse: Err for text that is no URL; the port of the parsed URL is
\* None when the text has no port or names the default port of the scheme
UrlParse(u) ==
    IF u.form = "garbage"
    THEN [ok |-> FALSE, host |-> None, port |-> None]
    ELSE IF u.form = "opaque"
    THEN [ok |-> TRUE, host |-> None, port |-> None]
    ELSE [ok |-> TRUE,
          host |-> Some(u.host),
          port |-> IF u.port = DefaultPort(u.scheme) THEN None ELSE u.port]

UriTexts ==
    {[form |-> "garbage", scheme |-> "", host |-> "", port |-> None],
     [form |-> "opaque", scheme |-> "mailto", host |-> "", port |-> None]}
    \cup [form : {"hier"}, scheme : {"http", "https"},
          host : {"localhost", "127.0.0.1", "example.com"},
          port : {None, Some(0), Some(80), Some(8080)}]

(***************************************************************************)
(* Request payloads (src/src/models.rs).  One record shape serves the      *)
(* three requests; the fields a request does not have stay None.           *)
(***************************************************************************)
NoPayload ==
    [client_id |-> "", client_secret |-> None, scopes |-> None,
     hosted_domain |-> None, login_hint |-> None, redirect_uri |-> None,
     success_html_response |-> None, access_token |-> None,
     refresh_token |-> None]

\* every combination of the fields sign_in validates, and for requests with
\* or without a fixed redirect port every combination of the optional extras
LoopbackUri == [form |-> "hier", scheme |-> "http", host |-> "127.0.0.1",
                port |-> Some(8080)]

SignInRequest ==
    [client_id : {"client"},
     client_secret : {None, Some("secret")},
     scopes : {None, Some(<<>>), Some(<<"email">>)},
     hosted_domain : {None},
     login_hint : {None},
     redirect_uri : {None} \cup {Some(u) : u \in UriTexts},
     success_html_response : {None},
     access_token : {None},
     refresh_token : {None}]
    \cup
    [client_id : {"client"},
     client_secret : {None, Some("secret")},
     scopes : {None, Some(<<>>), Some(<<"email">>)},
     hosted_domain : {None, Some("corp.example")},
     login_hint : {None, Some("user@corp.example")},
     redirect_uri : {None, Some(LoopbackUri)},
     success_html_response : {None, Some("Done")},
     access_token : {None},
     refresh_token : {None}]

SignOutRequest ==
    [client_id : {""}, client_secret : {None}, scopes : {None},
     hosted_domain : {None}, login_hint : {None}, redirect_uri : {None},
     success_html_response : {None},
     access_token : {None, Some("at")},
     refresh_token : {None}]

RefreshTokenRequest ==
    [client_id : {"client"},
     client_secret : {None, Some("secret")},
     scopes : {None, Some(<<"email">>)},
     hosted_domain : {None}, login_hint : {None}, redirect_uri : {None},
     success_html_response : {None},
     access_token : {None},
     refresh_token : {Some("rt")}]

(***************************************************************************)
(* The inbound redirect request.  The first line of the request is given   *)
(* by its number of whitespace-separated tokens and by its second token,   *)
(* the request path: whether "http://localhost" followed by the path is a  *)
(* URL, and the key=value pairs of its query string as they are written    *)
(* on the wire (percent-encoded).                                          *)
(***************************************************************************)
WireValues == {"abc", "4%2Fxy"}
WirePairs == [key : {"code", "state"}, val : WireValues]
             \cup {[key |-> "error", val |-> "access_denied"]}
WireQueries == UNION {[1..n -> WirePairs] : n \in 0..MaxQueryLen}

NoPath == [parses |-> FALSE, query |-> <<>>]
RequestLines ==
    [ntokens : {0, 1}, path : {NoPath}]
    \cup [ntokens : {3}, path : {NoPath}]
    \cup [ntokens : {3}, path : [parses : {TRUE}, query : WireQueries]]

\* form_urlencoded decoding of one name or value of the query string
PercentDecode(s) == IF s = "4%2Fxy" THEN "4/xy" ELSE s

\* Url::query_pairs: the decoded (name, value) pairs in order
QueryPairs(path) ==
    [i \in 1..Len(path.query) |->
        [key |-> PercentDecode(path.query[i].key),
         val |-> PercentDecode(path.query[i].val)]]

\* Iterator::find(|(key, _)| key == k).map(|(_, v)| v): the value of the
\* first pair named k
QueryFind_Last(pairs, k) ==
    LET hits == {i \in 1..Len(pairs) : pairs[i].key = k}
    IN  IF hits = {} THEN None
        ELSE Some(pairs[CHOOSE i \in hits : \A j \in hits : i >= j].val)

QueryFind(pairs, k) ==
    LET hits == {i \in 1..Len(pairs) : pairs[i].key = k}
    IN  IF hits = {} THEN None
        ELSE Some(pairs[CHOOSE i \in hits : \A j \in hits : i <= j].val)

(***************************************************************************)
(* Results and errors (src/src/error.rs)                                   *)
(***************************************************************************)
Pending == [kind |-> "Pending", err |-> "", msg |-> "", success |-> FALSE,
            token |-> None, status |-> 0]
Err(e, m) == [kind |-> "Err", err |-> e, msg |-> m, success |-> FALSE,
              token |-> None, status |-> 0]
\* Ok(token response), of the provider or of the public operation
OkToken(t) == [kind |-> "Ok", err |-> "", msg |-> "", success |-> FALSE,
               token |-> Some(t), status |-> 0]
\* Ok(SignOutResponse { success: true })
OkSignOut == [kind |-> "Ok", err |-> "", msg |-> "", success |-> TRUE,
              token |-> None, status |-> 0]
\* Ok(response) of the revocation worker: an HTTP answer with its status
OkResponse(st) == [kind |-> "Ok", err |-> "", msg |-> "", success |-> FALSE,
                   token |-> None, status |-> st]

\* what the provider may answer to a successful token request
ProviderTokens ==
    {[access_token |-> "at", id_token |-> Some("idt"),
      refresh_token |-> Some("rt"), scopes |-> Some(<<"email">>),
      expires_in |-> Some(3600)],
     [access_token |-> "at", id_token |-> None,
      refresh_token |-> None, scopes |-> None,
      expires_in |-> None]}

\* wall-clock time (seconds since the epoch) when the answer is normalised
Now == 1000

\* the TokenResponse built from the provider's answer
Normalize(t) ==
    [id_token |-> t.id_token,
     access_token |-> t.access_token,
     scopes |-> IF IsSome(t.scopes) THEN Unwrap(t.scopes) ELSE <<>>,
     refresh_token |-> t.refresh_token,
     expires_at |-> IF IsSome(t.expires_in)
                    THEN Some(Now + Unwrap(t.expires_in)) ELSE None]

\* random values of one flow
PkceVerifiers == {"verifier"}
\* the S256 code challenge of a verifier
Sha256_Plain(v) == v

Sha256(v) == IF v = "verifier" THEN "challenge" ELSE "challenge2"
CsrfTokens == {"abc", "csrf"}

(***************************************************************************)
(* State                                                                   *)
(***************************************************************************)
VARIABLES
    slots,          \* the call slots in use: calls may overlap across slots
    pc,             \* position of each call
    op,             \* the public operation each call runs
    payload,        \* the request of each call
    result,         \* what the call returned
    redirect_host,  \* sign_in: host taken from the redirect URI
    port,           \* sign_in: port taken from the redirect URI
    listener,       \* sign_in: port the TcpListener is bound to
    redirect_url,   \* sign_in: the finalized redirect URL
    pkce,           \* sign_in: the PKCE code verifier
    csrf,           \* sign_in: the CSRF token of the authorization URL
    authorize_url,  \* sign_in: the URL handed to the browser launcher
    stream,         \* sign_in: the accepted connection and its request line
    response,       \* sign_in: the bytes written to the connection
    code,           \* sign_in: authorization code read from the redirect
    state,          \* sign_in: state value read from the redirect
    worker,         \* the worker thread of the call: not spawned ("none"),
                    \* running ("started", "built") or ended ("finished",
                    \* "panicked")
    worker_result,  \* what the worker's closure returned
    http_request,   \* the request the worker sent to the provider
    hist            \* per call: how often each step was taken

vars == <<slots, pc, op, payload, result, redirect_host, port, listener,
          redirect_url, pkce, csrf, authorize_url, stream, response, code,
          state, worker, worker_result, http_request, hist>>

sign_in_locals == <<redirect_host, port, listener, redirect_url, pkce, csrf,
                    stream, code, state>>
observed == <<authorize_url, response, http_request>>
worker_vars == <<worker, worker_result>>

NoHist == [binds |-> 0, launches |-> 0, accepts |-> 0, responses |-> 0,
           spawns |-> 0, token_requests |-> 0, revocations |-> 0]

Bump(h, f) == [h EXCEPT ![f] = @ + 1]

Init ==
    /\ slots = {1}
    /\ pc = [c \in Calls |-> "idle"]
    /\ op = [c \in Calls |-> "none"]
    /\ payload = [c \in Calls |-> NoPayload]
    /\ result = [c \in Calls |-> Pending]
    /\ redirect_host = [c \in Calls |-> None]
    /\ port = [c \in Calls |-> None]
    /\ listener = [c \in Calls |-> None]
    /\ redirect_url = [c \in Calls |-> None]
    /\ pkce = [c \in Calls |-> None]
    /\ csrf = [c \in Calls |-> None]
    /\ authorize_url = [c \in Calls |-> None]
    /\ stream = [c \in Calls |-> None]
    /\ response = [c \in Calls |-> None]
    /\ code = [c \in Calls |-> None]
    /\ state = [c \in Calls |-> None]
    /\ worker = [c \in Calls |-> "none"]
    /\ worker_result = [c \in Calls |-> Pending]
    /\ http_request = [c \in Calls |-> None]
    /\ hist = [c \in Calls |-> NoHist]

\* a public operation is entered with request p
Enter(c, o, p) ==
    /\ c \in slots
    /\ pc[c] = "idle"
    /\ pc' = [pc EXCEPT ![c] = "entered"]
    /\ op' = [op EXCEPT ![c] = o]
    /\ payload' = [payload EXCEPT ![c] = p]
    /\ UNCHANGED <<slots, result, sign_in_locals, observed, worker_vars,
                   hist>>

\* the operation returns r: every local of the call is dropped, which
\* closes the listener and the connection the call still holds
Return_KeepListener(c, r) ==
    /\ pc' = [pc EXCEPT ![c] = "done"]
    /\ result' = [result EXCEPT ![c] = r]
    /\ redirect_host' = [redirect_host EXCEPT ![c] = None]
    /\ port' = [port EXCEPT ![c] = None]
    /\ listener' = listener
    /\ redirect_url' = [redirect_url EXCEPT ![c] = None]
    /\ pkce' = [pkce EXCEPT ![c] = None]
    /\ csrf' = [csrf EXCEPT ![c] = None]
    /\ stream' = [stream EXCEPT ![c] = None]
    /\ code' = [code EXCEPT ![c] = None]
    /\ state' = [state EXCEPT ![c] = None]

Return(c, r) ==
    /\ pc' = [pc EXCEPT ![c] = "done"]
    /\ result' = [result EXCEPT ![c] = r]
    /\ redirect_host' = [redirect_host EXCEPT ![c] = None]
    /\ port' = [port EXCEPT ![c] = None]
    /\ listener' = [listener EXCEPT ![c] = None]
    /\ redirect_url' = [redirect_url EXCEPT ![c] = None]
    /\ pkce' = [pkce EXCEPT ![c] = None]
    /\ csrf' = [csrf EXCEPT ![c] = None]
    /\ stream' = [stream EXCEPT ![c] = None]
    /\ code' = [code EXCEPT ![c] = None]
    /\ state' = [state EXCEPT ![c] = None]

(***************************************************************************)
(* sign_in                                                                 *)
(***************************************************************************)
SignInCall(c) ==
    /\ op[c] = "none"
    /\ \E p \in SignInRequest : Enter(c, "sign_in", p)

\* the check of the scopes: the message of the error, if any
ScopesError_AcceptEmpty(p) ==
    IF IsNone(p.scopes) THEN Some("No scopes provided") ELSE None

ScopesError(p) ==
    IF IsNone(p.scopes) THEN Some("No scopes provided")
    ELSE IF Unwrap(p.scopes) = <<>> THEN Some("Empty scopes array")
    ELSE None

\* the host and the port taken from the redirect URI, or the message of the
\* error; without a redirect URI the host is localhost and no port is fixed
RedirectTarget_AnyHost(p) ==
    LET bad(m) == [ok |-> FALSE, msg |-> m, host |-> None, port |-> None]
    IN
    IF IsSome(p.redirect_uri)
    THEN LET parsed_url == UrlParse(Unwrap(p.redirect_uri))
         IN  IF ~parsed_url.ok THEN bad("Invalid redirect URI")
             ELSE IF IsNone(parsed_url.host)
             THEN bad("Redirect URI must have a host")
             ELSE [ok |-> TRUE, msg |-> "", host |-> parsed_url.host,
                   port |-> parsed_url.port]
    ELSE [ok |-> TRUE, msg |-> "",
          host |-> Some(DEFAULT_REDIRECT_HOST), port |-> None]

RedirectTarget(p) ==
    LET bad(m) == [ok |-> FALSE, msg |-> m, host |-> None, port |-> None]
    IN
    IF IsSome(p.redirect_uri)
    THEN LET parsed_url == UrlParse(Unwrap(p.redirect_uri))
         IN  IF ~parsed_url.ok THEN bad("Invalid redirect URI")
             ELSE IF IsNone(parsed_url.host)
             THEN bad("Redirect URI must have a host")
             ELSE IF /\ Unwrap(parsed_url.host) # DEFAULT_REDIRECT_HOST
                     /\ Unwrap(parsed_url.host) # LOCALHOST_ADDR
             THEN bad("Redirect URI must use localhost or 127.0.0.1")
             ELSE [ok |-> TRUE, msg |-> "", host |-> parsed_url.host,
                   port |-> parsed_url.port]
    ELSE [ok |-> TRUE, msg |-> "",
          host |-> Some(DEFAULT_REDIRECT_HOST), port |-> None]

\* the checks sign_in makes before it touches the network: the scopes, the
\* redirect URI, the client secret.  The first failing check decides.
ValidateSignIn_NoSecretCheck(p) ==
    LET bad(m) == [ok |-> FALSE, msg |-> m, host |-> None, port |-> None]
    IN
    IF IsSome(ScopesError(p)) THEN bad(Unwrap(ScopesError(p)))
    ELSE RedirectTarget(p)

ValidateSignIn(p) ==
    LET bad(m) == [ok |-> FALSE, msg |-> m, host |-> None, port |-> None]
    IN
    IF IsSome(ScopesError(p)) THEN bad(Unwrap(ScopesError(p)))
    ELSE IF ~RedirectTarget(p).ok THEN RedirectTarget(p)
    ELSE IF IsNone(p.client_secret)
    THEN bad("Client secret is required for desktop authentication")
    ELSE RedirectTarget(p)

SignInValidate(c) ==
    /\ op[c] = "sign_in"
    /\ pc[c] = "entered"
    /\ LET v == ValidateSignIn(payload[c])
       IN  IF v.ok
           THEN /\ pc' = [pc EXCEPT ![c] = "bind"]
                /\ redirect_host' = [redirect_host EXCEPT ![c] = v.host]
                /\ port' = [port EXCEPT ![c] = v.port]
                /\ UNCHANGED <<result, listener, redirect_url, pkce, csrf,
                               stream, code, state>>
           ELSE Return(c, Err("ConfigurationError", v.msg))
    /\ UNCHANGED <<slots, op, payload, observed, worker_vars, hist>>

\* the ports some call's listener holds
BoundPorts == {Unwrap(listener[d]) : d \in {e \in Calls : IsSome(listener[e])}}

\* the ports TcpListener::bind("127.0.0.1:p") can end up on: the port asked
\* for, or for port 0 a free port the operating system chooses
BindCandidates(p) ==
    IF IsSome(p) /\ Unwrap(p) # 0
    THEN {Unwrap(p)} \ BoundPorts
    ELSE EphemeralPorts \ BoundPorts

\* bind the listener; the bind may fail (port in use, permission denied)
SignInBind(c) ==
    /\ op[c] = "sign_in"
    /\ pc[c] = "bind"
    /\ hist' = [hist EXCEPT ![c] = Bump(@, "binds")]
    /\ \/ /\ \E q \in BindCandidates(port[c]) :
                listener' = [listener EXCEPT ![c] = Some(q)]
          /\ pc' = [pc EXCEPT ![c] = "finalize"]
          /\ UNCHANGED <<result, redirect_host, port, redirect_url, pkce,
                         csrf, stream, code, state>>
       \/ Return(c, Err("NetworkError",
                        IF IsSome(port[c]) THEN "Failed to bind to port"
                        ELSE "Failed to bind to any available port"))
    /\ UNCHANGED <<slots, op, payload, observed, worker_vars>>

\* format!("http://{redirect_host}:{actual_port}")
FormatRedirectUrl(host, actual_port) ==
    [scheme |-> "http", host |-> host, port |-> actual_port]

\* read the bound port back and fix the redirect URL with it
SignInFinalize(c) ==
    /\ op[c] = "sign_in"
    /\ pc[c] = "finalize"
    /\ \/ /\ LET actual_port == Unwrap(listener[c])
             IN  redirect_url' = [redirect_url EXCEPT ![c] =
                   Some(FormatRedirectUrl(Unwrap(redirect_host[c]),
                                          actual_port))]
          /\ pc' = [pc EXCEPT ![c] = "launch"]
          /\ UNCHANGED <<result, redirect_host, port, listener, pkce, csrf,
                         stream, code, state>>
       \/ Return(c, Err("NetworkError", "Failed to get local address"))
    /\ UNCHANGED <<slots, op, payload, observed, worker_vars, hist>>

\* the query parameters of the authorization URL
AuthorizeUrl(p, redirect, csrf_state, challenge) ==
    [base |-> GOOGLE_AUTH_URL,
     keys |-> {"response_type", "client_id", "state", "code_challenge",
               "code_challenge_method", "redirect_uri", "scope"},
     response_type |-> "code",
     client_id |-> p.client_id,
     state |-> csrf_state,
     code_challenge |-> challenge,
     code_challenge_method |-> "S256",
     redirect_uri |-> redirect,
     scope |-> Unwrap(p.scopes)]

\* draw the PKCE verifier and the CSRF token, build the authorization URL
\* and open it in the browser; opening may fail
SignInLaunch(c) ==
    /\ op[c] = "sign_in"
    /\ pc[c] = "launch"
    /\ hist' = [hist EXCEPT ![c] = Bump(@, "launches")]
    /\ \E v \in PkceVerifiers, t \in CsrfTokens :
         /\ authorize_url' = [authorize_url EXCEPT ![c] =
               Some(AuthorizeUrl(payload[c], Unwrap(redirect_url[c]), t,
                                 Sha256(v)))]
         /\ \/ /\ pkce' = [pkce EXCEPT ![c] = Some(v)]
               /\ csrf' = [csrf EXCEPT ![c] = Some(t)]
               /\ pc' = [pc EXCEPT ![c] = "accept"]
               /\ UNCHANGED <<result, redirect_host, port, listener,
                              redirect_url, stream, code, state>>
            \/ Return(c, Err("NetworkError", "Failed to open browser"))
    /\ UNCHANGED <<slots, op, payload, response, http_request, worker_vars>>

\* listener.incoming().flatten().next(): failed accepts are skipped, the
\* first connection that arrives is accepted; line is what its peer sends
\* as the first line
SignInAccept_Timeout(c) ==
    /\ op[c] = "sign_in"
    /\ pc[c] = "accept"
    /\ \/ /\ \E line \in RequestLines :
               stream' = [stream EXCEPT ![c] = Some(line)]
          /\ pc' = [pc EXCEPT ![c] = "read"]
          /\ hist' = [hist EXCEPT ![c] = Bump(@, "accepts")]
          /\ UNCHANGED <<result, redirect_host, port, listener, redirect_url,
                         pkce, csrf, code, state>>
       \/ /\ Return(c, Err("NetworkError", "Timed out"))
          /\ UNCHANGED hist
    /\ UNCHANGED <<slots, op, payload, observed, worker_vars>>

SignInAccept(c) ==
    /\ op[c] = "sign_in"
    /\ pc[c] = "accept"
    /\ \E line \in RequestLines :
         stream' = [stream EXCEPT ![c] = Some(line)]
    /\ pc' = [pc EXCEPT ![c] = "read"]
    /\ hist' = [hist EXCEPT ![c] = Bump(@, "accepts")]
    /\ UNCHANGED <<slots, op, payload, result, redirect_host, port, listener,
                   redirect_url, pkce, csrf, code, state, observed,
                   worker_vars>>

\* what sign_in makes of the request line: the code and the state of the
\* redirect, or the error it returns
ParseRedirect_CodeOnly(line) ==
    LET bad(e, m) == [ok |-> FALSE, err |-> e, msg |-> m, code |-> None,
                      state |-> None]
    IN
    IF line.ntokens < 2
    THEN bad("NetworkError", "Invalid HTTP request format")
    ELSE IF ~line.path.parses
    THEN bad("NetworkError", "Failed to parse redirect URL")
    ELSE LET found_code == QueryFind(QueryPairs(line.path), "code")
             found_state == QueryFind(QueryPairs(line.path), "state")
         IN  IF IsNone(found_code)
             THEN bad("AuthenticationFailed",
                      "Authorization code not found in response")
             ELSE [ok |-> TRUE, err |-> "", msg |-> "", code |-> found_code,
                   state |-> found_state]

ParseRedirect(line) ==
    LET bad(e, m) == [ok |-> FALSE, err |-> e, msg |-> m, code |-> None,
                      state |-> None]
    IN
    IF line.ntokens < 2
    THEN bad("NetworkError", "Invalid HTTP request format")
    ELSE IF ~line.path.parses
    THEN bad("NetworkError", "Failed to parse redirect URL")
    ELSE LET found_code == QueryFind(QueryPairs(line.path), "code")
             found_state == QueryFind(QueryPairs(line.path), "state")
         IN  IF IsNone(found_code)
             THEN bad("AuthenticationFailed",
                      "Authorization code not found in response")
             ELSE IF IsNone(found_state)
             THEN bad("AuthenticationFailed",
                      "State parameter not found in response")
             ELSE [ok |-> TRUE, err |-> "", msg |-> "", code |-> found_code,
                   state |-> found_state]

\* read the request line from the connection (the read may fail) and take
\* the code and the state from it
SignInRead_AnswerErrors(c) ==
    /\ op[c] = "sign_in"
    /\ pc[c] = "read"
    /\ \/ LET r == ParseRedirect(Unwrap(stream[c]))
          IN  IF r.ok
              THEN /\ code' = [code EXCEPT ![c] = r.code]
                   /\ state' = [state EXCEPT ![c] = r.state]
                   /\ pc' = [pc EXCEPT ![c] = "respond"]
                   /\ UNCHANGED <<result, redirect_host, port, listener,
                                  redirect_url, pkce, csrf, stream, response,
                                  hist>>
              ELSE /\ Return(c, Err(r.err, r.msg))
                   /\ response' = [response EXCEPT ![c] =
                         Some([status |-> 200,
                               body |-> SUCCESS_HTML_RESPONSE])]
                   /\ hist' = [hist EXCEPT ![c] = Bump(@, "responses")]
       \/ /\ Return(c, Err("Io", "read_line"))
          /\ UNCHANGED <<response, hist>>
    /\ UNCHANGED <<slots, op, payload, authorize_url, http_request,
                   worker_vars>>

SignInRead_CheckState(c) ==
    /\ op[c] = "sign_in"
    /\ pc[c] = "read"
    /\ \/ LET r == ParseRedirect(Unwrap(stream[c]))
          IN  IF r.ok /\ r.state = csrf[c]
              THEN /\ code' = [code EXCEPT ![c] = r.code]
                   /\ state' = [state EXCEPT ![c] = r.state]
                   /\ pc' = [pc EXCEPT ![c] = "respond"]
                   /\ UNCHANGED <<result, redirect_host, port, listener,
                                  redirect_url, pkce, csrf, stream>>
              ELSE IF r.ok
              THEN Return(c, Err("AuthenticationFailed", "State mismatch"))
              ELSE Return(c, Err(r.err, r.msg))
       \/ Return(c, Err("Io", "read_line"))
    /\ UNCHANGED <<slots, op, payload, observed, worker_vars, hist>>

SignInRead_Retry(c) ==
    /\ op[c] = "sign_in"
    /\ pc[c] = "read"
    /\ \/ LET r == ParseRedirect(Unwrap(stream[c]))
          IN  IF r.ok
              THEN /\ code' = [code EXCEPT ![c] = r.code]
                   /\ state' = [state EXCEPT ![c] = r.state]
                   /\ pc' = [pc EXCEPT ![c] = "respond"]
                   /\ UNCHANGED <<result, redirect_host, port, listener,
                                  redirect_url, pkce, csrf, stream>>
              ELSE /\ stream' = [stream EXCEPT ![c] = None]
                   /\ pc' = [pc EXCEPT ![c] = "accept"]
                   /\ UNCHANGED <<result, redirect_host, port, listener,
                                  redirect_url, pkce, csrf, code, state>>
       \/ Return(c, Err("Io", "read_line"))
    /\ UNCHANGED <<slots, op, payload, observed, worker_vars, hist>>

SignInRead(c) ==
    /\ op[c] = "sign_in"
    /\ pc[c] = "read"
    /\ \/ LET r == ParseRedirect(Unwrap(stream[c]))
          IN  IF r.ok
              THEN /\ code' = [code EXCEPT ![c] = r.code]
                   /\ state' = [state EXCEPT ![c] = r.state]
                   /\ pc' = [pc EXCEPT ![c] = "respond"]
                   /\ UNCHANGED <<result, redirect_host, port, listener,
                                  redirect_url, pkce, csrf, stream>>
              ELSE Return(c, Err(r.err, r.msg))
       \/ Return(c, Err("Io", "read_line"))
    /\ UNCHANGED <<slots, op, payload, observed, worker_vars, hist>>

\* the body of the 200 OK answer
SuccessMessage(p) ==
    IF IsSome(p.success_html_response) THEN Unwrap(p.success_html_response)
    ELSE SUCCESS_HTML_RESPONSE

\* write the 200 OK answer (the write may fail) and close the connection
SignInRespond(c) ==
    /\ op[c] = "sign_in"
    /\ pc[c] = "respond"
    /\ \/ /\ response' = [response EXCEPT ![c] =
                Some([status |-> 200, body |-> SuccessMessage(payload[c])])]
          /\ hist' = [hist EXCEPT ![c] = Bump(@, "responses")]
          /\ stream' = [stream EXCEPT ![c] = None]
          /\ pc' = [pc EXCEPT ![c] = "spawn"]
          /\ UNCHANGED <<result, redirect_host, port, listener, redirect_url,
                         pkce, csrf, code, state>>
       \/ /\ Return(c, Err("Io", "write_all"))
          /\ UNCHANGED <<response, hist>>
    /\ UNCHANGED <<slots, op, payload, authorize_url, http_request,
                   worker_vars>>

(***************************************************************************)
(* Worker threads: std::thread::spawn(closure).join()                      *)
(***************************************************************************)
Spawn(c) ==
    /\ worker' = [worker EXCEPT ![c] = "started"]
    /\ hist' = [hist EXCEPT ![c] = Bump(@, "spawns")]
    /\ pc' = [pc EXCEPT ![c] = "join"]

SignInSpawn(c) ==
    /\ op[c] = "sign_in"
    /\ pc[c] = "spawn"
    /\ Spawn(c)
    /\ UNCHANGED <<slots, op, payload, result, sign_in_locals, observed,
                   worker_result>>

\* the worker builds its HTTP client (redirects are never followed)
WorkerBuildClient(c) ==
    /\ worker[c] = "started"
    /\ \/ /\ worker' = [worker EXCEPT ![c] = "built"]
          /\ UNCHANGED worker_result
       \/ /\ worker' = [worker EXCEPT ![c] = "finished"]
          /\ worker_result' = [worker_result EXCEPT ![c] =
                Err("NetworkError", "Failed to build HTTP client")]
    /\ UNCHANGED <<slots, pc, op, payload, result, sign_in_locals, observed,
                   hist>>

\* the worker panics before its closure returns
WorkerPanic(c) ==
    /\ worker[c] \in {"started", "built"}
    /\ worker' = [worker EXCEPT ![c] = "panicked"]
    /\ UNCHANGED <<slots, pc, op, payload, result, sign_in_locals, observed,
                   worker_result, hist>>

NoHttpRequest ==
    [url |-> "", grant_type |-> "", code |-> None, code_verifier |-> None,
     redirect_uri |-> None, client_id |-> "", client_secret |-> None,
     refresh_token |-> None, token |-> None]

\* the form exchange_code(code).set_pkce_verifier(v) posts
ExchangeCodeRequest(p, c_code, verifier, redirect) ==
    [NoHttpRequest EXCEPT
        !.url = GOOGLE_TOKEN_URL,
        !.grant_type = "authorization_code",
        !.code = Some(c_code),
        !.code_verifier = Some(verifier),
        !.redirect_uri = Some(redirect),
        !.client_id = p.client_id,
        !.client_secret = p.client_secret]

\* the worker of sign_in posts the code to the token endpoint
SignInExchange(c) ==
    /\ op[c] = "sign_in"
    /\ worker[c] = "built"
    /\ http_request' = [http_request EXCEPT ![c] =
          Some(ExchangeCodeRequest(payload[c], Unwrap(code[c]),
                                   Unwrap(pkce[c]), Unwrap(redirect_url[c])))]
    /\ hist' = [hist EXCEPT ![c] = Bump(@, "token_requests")]
    /\ worker' = [worker EXCEPT ![c] = "finished"]
    /\ \/ \E t \in ProviderTokens :
            worker_result' = [worker_result EXCEPT ![c] = OkToken(t)]
       \/ worker_result' = [worker_result EXCEPT ![c] =
            Err("AuthenticationFailed", "Failed to exchange code for token")]
    /\ UNCHANGED <<slots, pc, op, payload, result, sign_in_locals,
                   authorize_url, response>>

\* join().map_err(panic)?? and the normalisation of the token response
JoinToken_PanicAsExchange(w, wr, panic_msg) ==
    IF w = "panicked"
    THEN Err("AuthenticationFailed",
             IF panic_msg = "Token refresh thread panicked"
             THEN "Failed to refresh token"
             ELSE "Failed to exchange code for token")
    ELSE IF wr.kind = "Err" THEN wr
    ELSE OkToken(Normalize(Unwrap(wr.token)))

JoinToken(w, wr, panic_msg) ==
    IF w = "panicked" THEN Err("AuthenticationFailed", panic_msg)
    ELSE IF wr.kind = "Err" THEN wr
    ELSE OkToken(Normalize(Unwrap(wr.token)))

\* sign_in joins its worker and returns what JoinToken makes of it
SignInJoin_RetryExchange(c) ==
    /\ op[c] = "sign_in"
    /\ pc[c] = "join"
    /\ worker[c] \in {"finished", "panicked"}
    /\ IF worker[c] = "finished" /\ worker_result[c].kind = "Err"
       THEN /\ worker' = [worker EXCEPT ![c] = "started"]
            /\ worker_result' = [worker_result EXCEPT ![c] = Pending]
            /\ UNCHANGED <<pc, result, sign_in_locals>>
       ELSE /\ Return(c, JoinToken(worker[c], worker_result[c],
                                  "Token exchange thread panicked"))
            /\ UNCHANGED worker_vars
    /\ UNCHANGED <<slots, op, payload, observed, hist>>

SignInJoin(c) ==
    /\ op[c] = "sign_in"
    /\ pc[c] = "join"
    /\ worker[c] \in {"finished", "panicked"}
    /\ Return(c, JoinToken(worker[c], worker_result[c],
                           "Token exchange thread panicked"))
    /\ UNCHANGED <<slots, op, payload, observed, worker_vars, hist>>

(***************************************************************************)
(* sign_out                                                                *)
(***************************************************************************)
SignOutCall(c) ==
    /\ op[c] = "none"
    /\ \E p \in SignOutRequest : Enter(c, "sign_out", p)

\* without an access token sign_out returns at once, otherwise it spawns
\* the revocation worker
SignOutStart_AlwaysRevoke(c) ==
    /\ op[c] = "sign_out"
    /\ pc[c] = "entered"
    /\ Spawn(c)
    /\ UNCHANGED <<result, sign_in_locals>>
    /\ UNCHANGED <<slots, op, payload, observed, worker_result>>

SignOutStart(c) ==
    /\ op[c] = "sign_out"
    /\ pc[c] = "entered"
    /\ IF IsNone(payload[c].access_token)
       THEN /\ Return(c, OkSignOut)
            /\ UNCHANGED <<worker, hist>>
       ELSE /\ Spawn(c)
            /\ UNCHANGED <<result, sign_in_locals>>
    /\ UNCHANGED <<slots, op, payload, observed, worker_result>>

\* the form posted to the revocation endpoint
RevocationRequest(p) ==
    [NoHttpRequest EXCEPT
        !.url = GOOGLE_REVOCATION_URL,
        !.token = p.access_token]

\* HTTP statuses the revocation endpoint may answer with
HttpStatuses == {200, 400}

\* the worker of sign_out posts the token to the revocation endpoint: the
\* endpoint answers with some status, or the request fails in transport
SignOutRevoke(c) ==
    /\ op[c] = "sign_out"
    /\ worker[c] = "built"
    /\ http_request' = [http_request EXCEPT ![c] =
          Some(RevocationRequest(payload[c]))]
    /\ hist' = [hist EXCEPT ![c] = Bump(@, "revocations")]
    /\ worker' = [worker EXCEPT ![c] = "finished"]
    /\ \/ \E st \in HttpStatuses :
            worker_result' = [worker_result EXCEPT ![c] = OkResponse(st)]
       \/ worker_result' = [worker_result EXCEPT ![c] =
            Err("NetworkError", "Failed to revoke token")]
    /\ UNCHANGED <<slots, pc, op, payload, result, sign_in_locals,
                   authorize_url, response>>

\* StatusCode::is_success
IsSuccess(st) == st >= 200 /\ st < 300

\* join().map_err(panic)?? and the check of the status of the answer
JoinSignOut_FailOnStatus(w, wr) ==
    IF w = "panicked"
    THEN Err("AuthenticationFailed", "Token exchange thread panicked")
    ELSE IF wr.kind = "Err" THEN wr
    ELSE IF IsSuccess(wr.status) THEN OkSignOut
    ELSE Err("AuthenticationFailed", "Failed to revoke token")

JoinSignOut_Swallow(w, wr) ==
    IF w = "panicked"
    THEN Err("AuthenticationFailed", "Token exchange thread panicked")
    ELSE OkSignOut

JoinSignOut(w, wr) ==
    IF w = "panicked"
    THEN Err("AuthenticationFailed", "Token exchange thread panicked")
    ELSE IF wr.kind = "Err" THEN wr
    ELSE IF IsSuccess(wr.status) THEN OkSignOut
    ELSE OkSignOut

\* sign_out joins its worker and returns what JoinSignOut makes of it
SignOutJoin_Detached(c) ==
    /\ op[c] = "sign_out"
    /\ pc[c] = "join"
    /\ Return(c, JoinSignOut(worker[c], worker_result[c]))
    /\ UNCHANGED <<slots, op, payload, observed, worker_vars, hist>>

SignOutJoin(c) ==
    /\ op[c] = "sign_out"
    /\ pc[c] = "join"
    /\ worker[c] \in {"finished", "panicked"}
    /\ Return(c, JoinSignOut(worker[c], worker_result[c]))
    /\ UNCHANGED <<slots, op, payload, observed, worker_vars, hist>>

(***************************************************************************)
(* refresh_token                                                           *)
(***************************************************************************)
RefreshCall(c) ==
    /\ op[c] = "none"
    /\ \E p \in RefreshTokenRequest : Enter(c, "refresh_token", p)

\* without a client secret refresh_token returns a ConfigurationError,
\* otherwise it spawns the refresh worker
RefreshStart_NoSecretCheck(c) ==
    /\ op[c] = "refresh_token"
    /\ pc[c] = "entered"
    /\ Spawn(c)
    /\ UNCHANGED <<result, sign_in_locals>>
    /\ UNCHANGED <<slots, op, payload, observed, worker_result>>

RefreshStart(c) ==
    /\ op[c] = "refresh_token"
    /\ pc[c] = "entered"
    /\ IF IsNone(payload[c].client_secret)
       THEN /\ Return(c, Err("ConfigurationError",
                  "Client secret is required for desktop authentication"))
            /\ UNCHANGED <<worker, hist>>
       ELSE /\ Spawn(c)
            /\ UNCHANGED <<result, sign_in_locals>>
    /\ UNCHANGED <<slots, op, payload, observed, worker_result>>

\* the form exchange_refresh_token(t) posts
RefreshRequest(p) ==
    [NoHttpRequest EXCEPT
        !.url = GOOGLE_TOKEN_URL,
        !.grant_type = "refresh_token",
        !.refresh_token = p.refresh_token,
        !.client_id = p.client_id,
        !.client_secret = p.client_secret]

\* the worker of refresh_token posts the refresh token to the token endpoint
RefreshExchange(c) ==
    /\ op[c] = "refresh_token"
    /\ worker[c] = "built"
    /\ http_request' = [http_request EXCEPT ![c] =
          Some(RefreshRequest(payload[c]))]
    /\ hist' = [hist EXCEPT ![c] = Bump(@, "token_requests")]
    /\ worker' = [worker EXCEPT ![c] = "finished"]
    /\ \/ \E t \in ProviderTokens :
            worker_result' = [worker_result EXCEPT ![c] = OkToken(t)]
       \/ worker_result' = [worker_result EXCEPT ![c] =
            Err("AuthenticationFailed", "Failed to refresh token")]
    /\ UNCHANGED <<slots, pc, op, payload, result, sign_in_locals,
                   authorize_url, response>>

RefreshJoin(c) ==
    /\ op[c] = "refresh_token"
    /\ pc[c] = "join"
    /\ worker[c] \in {"finished", "panicked"}
    /\ Return(c, JoinToken(worker[c], worker_result[c],
                           "Token refresh thread panicked"))
    /\ UNCHANGED <<slots, op, payload, observed, worker_vars, hist>>

\* the caller has taken the result of the call: the slot is free for the
\* next call, and what was recorded of the finished call is cleared
Forget(c) ==
    /\ pc[c] = "done"
    /\ pc' = [pc EXCEPT ![c] = "idle"]
    /\ op' = [op EXCEPT ![c] = "none"]
    /\ payload' = [payload EXCEPT ![c] = NoPayload]
    /\ result' = [result EXCEPT ![c] = Pending]
    /\ authorize_url' = [authorize_url EXCEPT ![c] = None]
    /\ response' = [response EXCEPT ![c] = None]
    /\ http_request' = [http_request EXCEPT ![c] = None]
    /\ worker_result' = [worker_result EXCEPT ![c] = Pending]
    /\ worker' = [worker EXCEPT ![c] = "none"]
    /\ hist' = [hist EXCEPT ![c] = NoHist]
    /\ UNCHANGED <<slots, sign_in_locals>>

(***************************************************************************)
(* Specification: calls are made one after the other in one slot           *)
(***************************************************************************)
Next ==
    \/ \E c \in Calls : SignInCall(c)
    \/ \E c \in Calls : SignInValidate(c)
    \/ \E c \in Calls : SignInBind(c)
    \/ \E c \in Calls : SignInFinalize(c)
    \/ \E c \in Calls : SignInLaunch(c)
    \/ \E c \in Calls : SignInAccept(c)
    \/ \E c \in Calls : SignInRead(c)
    \/ \E c \in Calls : SignInRespond(c)
    \/ \E c \in Calls : SignInSpawn(c)
    \/ \E c \in Calls : SignInExchange(c)
    \/ \E c \in Calls : SignInJoin(c)
    \/ \E c \in Calls : SignOutCall(c)
    \/ \E c \in Calls : SignOutStart(c)
    \/ \E c \in Calls : SignOutRevoke(c)
    \/ \E c \in Calls : SignOutJoin(c)
    \/ \E c \in Calls : RefreshCall(c)
    \/ \E c \in Calls : RefreshStart(c)
    \/ \E c \in Calls : RefreshExchange(c)
    \/ \E c \in Calls : RefreshJoin(c)
    \/ \E c \in Calls : WorkerBuildClient(c)
    \/ \E c \in Calls : WorkerPanic(c)
    \/ \E c \in Calls : Forget(c)

Spec == Init /\ [][Next]_vars

\* join() returns once the worker thread has ended: a call waiting in join
\* for a worker that has finished or panicked goes on.  Nothing is assumed
\* of the steps that wait for the outside: the accept of a connection, the
\* request line of the peer, the answer of the provider.
FairSpec ==
    /\ Spec
    /\ \A c \in Calls :
         /\ WF_vars(SignInJoin(c))
         /\ WF_vars(SignOutJoin(c))
         /\ WF_vars(RefreshJoin(c))

(***************************************************************************)
(* Specification of two sign_in calls in flight at once: the commands are  *)
(* async and each runs sign_in on the thread that polls it, so two calls   *)
(* interleave step by step.  The requests are those that pass validation,  *)
(* with no redirect URI, with one that names port 8080 and with one that   *)
(* names port 80; the peers send a complete redirect or a short line.      *)
(***************************************************************************)
DefaultPortUri == [form |-> "hier", scheme |-> "http", host |-> "127.0.0.1",
                   port |-> Some(80)]

ConcurrentRequests ==
    [client_id : {"client"},
     client_secret : {Some("secret")},
     scopes : {Some(<<"email">>)},
     hosted_domain : {None},
     login_hint : {None},
     redirect_uri : {None, Some(LoopbackUri), Some(DefaultPortUri)},
     success_html_response : {None},
     access_token : {None},
     refresh_token : {None}]

ConcurrentLines ==
    {[ntokens |-> 1, path |-> NoPath],
     [ntokens |-> 3,
      path |-> [parses |-> TRUE,
                query |-> <<[key |-> "code", val |-> "abc"],
                            [key |-> "state", val |-> "abc"]>>]]}

ConcurrentInit ==
    /\ slots = Calls
    /\ pc = [c \in Calls |-> "idle"]
    /\ op = [c \in Calls |-> "none"]
    /\ payload = [c \in Calls |-> NoPayload]
    /\ result = [c \in Calls |-> Pending]
    /\ redirect_host = [c \in Calls |-> None]
    /\ port = [c \in Calls |-> None]
    /\ listener = [c \in Calls |-> None]
    /\ redirect_url = [c \in Calls |-> None]
    /\ pkce = [c \in Calls |-> None]
    /\ csrf = [c \in Calls |-> None]
    /\ authorize_url = [c \in Calls |-> None]
    /\ stream = [c \in Calls |-> None]
    /\ response = [c \in Calls |-> None]
    /\ code = [c \in Calls |-> None]
    /\ state = [c \in Calls |-> None]
    /\ worker = [c \in Calls |-> "none"]
    /\ worker_result = [c \in Calls |-> Pending]
    /\ http_request = [c \in Calls |-> None]
    /\ hist = [c \in Calls |-> NoHist]

ConcurrentSignInCall(c) ==
    /\ op[c] = "none"
    /\ \E p \in ConcurrentRequests : Enter(c, "sign_in", p)

ConcurrentAccept(c) ==
    /\ SignInAccept(c)
    /\ stream'[c] \in {Some(line) : line \in ConcurrentLines}

ConcurrentNext ==
    \/ \E c \in Calls : ConcurrentSignInCall(c)
    \/ \E c \in Calls : SignInValidate(c)
    \/ \E c \in Calls : SignInBind(c)
    \/ \E c \in Calls : SignInFinalize(c)
    \/ \E c \in Calls : SignInLaunch(c)
    \/ \E c \in Calls : ConcurrentAccept(c)
    \/ \E c \in Calls : SignInRead(c)
    \/ \E c \in Calls : SignInRespond(c)
    \/ \E c \in Calls : SignInSpawn(c)
    \/ \E c \in Calls : SignInExchange(c)
    \/ \E c \in Calls : SignInJoin(c)
    \/ \E c \in Calls : WorkerBuildClient(c)
    \/ \E c \in Calls : WorkerPanic(c)
    \/ \E c \in Calls : Forget(c)

ConcurrentSpec == ConcurrentInit /\ [][ConcurrentNext]_vars

TypeOK ==
    /\ slots \subseteq Calls
    /\ \A c \in Calls :
         /\ pc[c] \in {"idle", "entered", "bind", "finalize", "launch",
                       "accept", "read", "respond", "spawn", "join", "done"}
         /\ op[c] \in {"none", "sign_in", "sign_out", "refresh_token"}
         /\ worker[c] \in {"none", "started", "built", "finished", "panicked"}
         /\ result[c].kind \in {"Pending", "Ok", "Err"}

(***************************************************************************)
(* Properties                                                              *)
(***************************************************************************)
\* the request of call c names a redirect URI whose host is neither
\* localhost nor 127.0.0.1
ForeignRedirectHost(c) ==
    /\ op[c] = "sign_in"
    /\ IsSome(payload[c].redirect_uri)
    /\ Unwrap(payload[c].redirect_uri).form = "hier"
    /\ Unwrap(payload[c].redirect_uri).host \notin {"localhost", "127.0.0.1"}

\* C1: a sign_in whose redirect URI has a host other than localhost or
\* 127.0.0.1 never gets past its validation: it binds no listener, launches
\* no browser and makes no token request, and what it returns is a
\* ConfigurationError.
C1_ForeignHostRejected ==
    \A c \in Calls :
        ForeignRedirectHost(c) =>
            /\ pc[c] \in {"entered", "done"}
            /\ hist[c].binds = 0
            /\ hist[c].launches = 0
            /\ hist[c].token_requests = 0
            /\ IsNone(listener[c])
            /\ IsNone(authorize_url[c])
            /\ IsNone(http_request[c])
            /\ pc[c] = "done" =>
                 /\ result[c].kind = "Err"
                 /\ result[c].err = "ConfigurationError"

\* a sign_in with scopes and a client secret has returned, rejected for the
\* host of its redirect URI alone
C1_Witness ==
    \E c \in Calls :
        /\ ForeignRedirectHost(c)
        /\ pc[c] = "done"
        /\ payload[c].scopes = Some(<<"email">>)
        /\ IsSome(payload[c].client_secret)
        /\ result[c] = Err("ConfigurationError",
                           "Redirect URI must use localhost or 127.0.0.1")

\* C2: a sign_in whose scopes are absent or empty binds no listener,
\* whatever its other fields are, and what it returns is a
\* ConfigurationError.
C2_NoScopesRejected ==
    \A c \in Calls :
        (/\ op[c] = "sign_in"
         /\ payload[c].scopes \in {None, Some(<<>>)}) =>
            /\ hist[c].binds = 0
            /\ IsNone(listener[c])
            /\ pc[c] \in {"entered", "done"}
            /\ pc[c] = "done" =>
                 /\ result[c].kind = "Err"
                 /\ result[c].err = "ConfigurationError"

\* a sign_in with an empty scope list, a client secret and a loopback
\* redirect URI has returned its ConfigurationError
C2_Witness ==
    \E c \in Calls :
        /\ op[c] = "sign_in"
        /\ pc[c] = "done"
        /\ payload[c].scopes = Some(<<>>)
        /\ IsSome(payload[c].client_secret)
        /\ payload[c].redirect_uri = Some(LoopbackUri)
        /\ result[c] = Err("ConfigurationError", "Empty scopes array")
        /\ hist[c].binds = 0

\* the query string of a request line, as written on the wire
WireHas(line, k) ==
    \E i \in 1..Len(line.path.query) : line.path.query[i].key = k

WireFirst(line, k) ==
    LET q == line.path.query
    IN  q[CHOOSE i \in 1..Len(q) :
            /\ q[i].key = k
            /\ \A j \in 1..(i - 1) : q[j].key # k].val

\* call c has read, in this step, a request line that has a request path
\* which parses as a URL
ReadStep(c) ==
    /\ op[c] = "sign_in"
    /\ pc[c] = "read"
    /\ pc'[c] # "read"
    /\ Unwrap(stream[c]).ntokens >= 2
    /\ Unwrap(stream[c]).path.parses
    /\ ~(pc'[c] = "done" /\ result'[c].err = "Io")

\* the step ends the call with AuthenticationFailed, no worker spawned and
\* no token request made
FailsUnexchanged(c) ==
    /\ pc'[c] = "done"
    /\ result'[c].kind = "Err"
    /\ result'[c].err = "AuthenticationFailed"
    /\ hist'[c].spawns = 0
    /\ hist'[c].token_requests = 0
    /\ IsNone(http_request'[c])

\* a redirect without code, or with code and without state, fails; the
\* token request carries the code sign_in took from the redirect
RedirectRejected(c) ==
    /\ (ReadStep(c) /\ ~WireHas(Unwrap(stream[c]), "code"))
          => FailsUnexchanged(c)
    /\ (/\ ReadStep(c)
        /\ WireHas(Unwrap(stream[c]), "code")
        /\ ~WireHas(Unwrap(stream[c]), "state"))
          => FailsUnexchanged(c)
    /\ (/\ op[c] = "sign_in"
        /\ IsNone(http_request[c])
        /\ IsSome(http_request'[c]))
          => Unwrap(http_request'[c]).code = code[c]

CompleteRedirect(c) ==
    /\ ReadStep(c)
    /\ WireHas(Unwrap(stream[c]), "code")
    /\ WireHas(Unwrap(stream[c]), "state")

\* C3 (as amended): a redirect request without a code parameter makes
\* sign_in return AuthenticationFailed, and so does one with a code and
\* without a state, in both cases with no token exchange attempted; with
\* both, the code handed to the token exchange is the percent-decoded value
\* of the first code parameter of the query string.
C3_RedirectDecoded ==
    [][\A c \in Calls :
          /\ RedirectRejected(c)
          /\ CompleteRedirect(c) =>
               /\ pc'[c] = "respond"
               /\ code'[c] =
                    Some(PercentDecode(WireFirst(Unwrap(stream[c]), "code")))
      ]_vars

\* the token request of a sign_in carries a code that was percent-encoded
\* in the redirect
C3_Witness ==
    \E c \in Calls :
        /\ op[c] = "sign_in"
        /\ IsSome(http_request[c])
        /\ Unwrap(http_request[c]).code = Some("4/xy")

\* C3 (as claimed): as above, but with both parameters present the code
\* handed to the token exchange is exactly the value written in the query
\* string.
C3_RedirectLiteral ==
    [][\A c \in Calls :
          /\ RedirectRejected(c)
          /\ CompleteRedirect(c) =>
               /\ pc'[c] = "respond"
               /\ code'[c] = Some(WireFirst(Unwrap(stream[c]), "code"))
      ]_vars

\* call c is a sign_out with an access token that has returned
SignedOutWithToken(c) ==
    /\ op[c] = "sign_out"
    /\ pc[c] = "done"
    /\ IsSome(payload[c].access_token)

\* C4: a sign_out with an access token returns Ok{success: true} whenever
\* the revocation endpoint answered, whatever the status of the answer.
C4_AnsweredRevocationSucceeds ==
    \A c \in Calls :
        (/\ SignedOutWithToken(c)
         /\ worker[c] = "finished"
         /\ worker_result[c].kind = "Ok") =>
            /\ worker_result[c].status \in HttpStatuses
            /\ result[c] = OkSignOut

\* a sign_out whose revocation was answered with status 400 has returned
\* Ok{success: true}
C4_Witness ==
    \E c \in Calls :
        /\ SignedOutWithToken(c)
        /\ hist[c].revocations = 1
        /\ worker_result[c] = OkResponse(400)
        /\ result[c] = OkSignOut

C6_LocalSignOut ==
    \A c \in Calls :
        (op[c] = "sign_out" /\ IsNone(payload[c].access_token)) =>
            /\ hist[c].spawns = 0
            /\ hist[c].revocations = 0
            /\ worker[c] = "none"
            /\ IsNone(http_request[c])
            /\ pc[c] \in {"entered", "done"}
            /\ pc[c] = "done" => result[c] = OkSignOut

\* a sign_out without an access token has returned
C6_Witness ==
    \E c \in Calls :
        /\ op[c] = "sign_out"
        /\ IsNone(payload[c].access_token)
        /\ pc[c] = "done"
        /\ result[c] = OkSignOut

\* C7: a refresh_token without a client secret spawns no worker and makes
\* no request to the token endpoint, and returns a ConfigurationError.
C7_RefreshNeedsSecret ==
    \A c \in Calls :
        (op[c] = "refresh_token" /\ IsNone(payload[c].client_secret)) =>
            /\ hist[c].spawns = 0
            /\ hist[c].token_requests = 0
            /\ worker[c] = "none"
            /\ IsNone(http_request[c])
            /\ pc[c] \in {"entered", "done"}
            /\ pc[c] = "done" =>
                 /\ result[c].kind = "Err"
                 /\ result[c].err = "ConfigurationError"

\* a refresh_token without a client secret has returned its error
C7_Witness ==
    \E c \in Calls :
        /\ op[c] = "refresh_token"
        /\ IsNone(payload[c].client_secret)
        /\ IsSome(payload[c].refresh_token)
        /\ pc[c] = "done"
        /\ result[c].err = "ConfigurationError"

\* the redirect URI of call c names a port; port 0 names none, it asks the
\* operating system for any port
NamesPort(c) ==
    /\ IsSome(payload[c].redirect_uri)
    /\ Unwrap(payload[c].redirect_uri).form = "hier"
    /\ IsSome(Unwrap(payload[c].redirect_uri).port)
    /\ Unwrap(Unwrap(payload[c].redirect_uri).port) # 0

\* C8 (as claimed): sign_in binds its listener before it finalizes the
\* redirect URI and before it launches the browser; the bound port is the
\* port the redirect URI of the request names, or an OS-assigned port when
\* it names none; the redirect URI in the authorization URL and in the
\* token request carries the port the listener is bound to.
C8_BoundPortAsRequested ==
    \A c \in Calls :
        op[c] = "sign_in" =>
            /\ IsSome(redirect_url[c]) =>
                 /\ IsSome(listener[c])
                 /\ Unwrap(redirect_url[c]).port = Unwrap(listener[c])
            /\ hist[c].launches > 0 => hist[c].binds = 1
            /\ IsSome(listener[c]) =>
                 IF NamesPort(c)
                 THEN listener[c] = Unwrap(payload[c].redirect_uri).port
                 ELSE Unwrap(listener[c]) \in EphemeralPorts
            /\ (IsSome(authorize_url[c]) /\ IsSome(listener[c])) =>
                 Unwrap(authorize_url[c]).redirect_uri.port
                    = Unwrap(listener[c])
            /\ (IsSome(http_request[c]) /\ IsSome(listener[c])) =>
                 Unwrap(Unwrap(http_request[c]).redirect_uri).port
                    = Unwrap(listener[c])

\* C9: in one sign_in call at most one listener is bound and at most one
\* connection is accepted, whatever the accepted connection carried.
C9_OneListenerOneConnection ==
    \A c \in Calls :
        op[c] = "sign_in" =>
            /\ hist[c].binds <= 1
            /\ hist[c].accepts <= 1
            /\ IsSome(listener[c]) => hist[c].binds = 1
            /\ IsSome(stream[c]) => hist[c].accepts = 1
            /\ pc[c] \in {"read", "respond", "spawn", "join"} =>
                 hist[c].accepts = 1

\* a sign_in has returned after the one connection it accepted sent a
\* malformed request line
C9_Witness ==
    \E c \in Calls :
        /\ op[c] = "sign_in"
        /\ pc[c] = "done"
        /\ hist[c].binds = 1
        /\ hist[c].accepts = 1
        /\ result[c] = Err("NetworkError", "Invalid HTTP request format")

\* C10 (as claimed): the authorization URL handed to the browser launcher
\* has a hosted-domain parameter exactly when the request supplies a hosted
\* domain, and a login-hint parameter exactly when it supplies a login hint.
C10_OptionalParamsForwarded ==
    \A c \in Calls :
        IsSome(authorize_url[c]) =>
            /\ IsSome(payload[c].hosted_domain)
                 <=> ({"hd", "hosted_domain"}
                         \cap Unwrap(authorize_url[c]).keys # {})
            /\ IsSome(payload[c].login_hint)
                 <=> "login_hint" \in Unwrap(authorize_url[c]).keys

\* the text values a message carries
AuthorizeUrlValues(u) ==
    {u.response_type, u.client_id, u.state, u.code_challenge,
     u.code_challenge_method}

\* C11 (as amended): the PKCE verifier of a sign_in is neither in the
\* authorization URL, which carries the challenge derived from it, nor in
\* the answer written to the redirect connection; it is sent in the
\* token-endpoint request, as its code_verifier, and nowhere else.
C11_VerifierOnlyToTokenEndpoint ==
    \A c \in Calls :
        op[c] = "sign_in" =>
            /\ IsSome(authorize_url[c]) =>
                 /\ AuthorizeUrlValues(Unwrap(authorize_url[c]))
                       \cap PkceVerifiers = {}
                 /\ IsSome(pkce[c]) =>
                      /\ Unwrap(authorize_url[c]).code_challenge
                            # Unwrap(pkce[c])
                      /\ Unwrap(authorize_url[c]).code_challenge
                            = (IF Unwrap(pkce[c]) = "verifier"
                               THEN "challenge" ELSE "challenge2")
            /\ IsSome(response[c]) =>
                 Unwrap(response[c]).body \notin PkceVerifiers
            /\ IsSome(http_request[c]) =>
                 /\ Unwrap(http_request[c]).url = GOOGLE_TOKEN_URL
                 /\ IsSome(pkce[c]) =>
                      Unwrap(http_request[c]).code_verifier = pkce[c]

\* the worker of a sign_in has sent the verifier to the token endpoint,
\* after the challenge went into the authorization URL
C11_Witness ==
    \E c \in Calls :
        /\ op[c] = "sign_in"
        /\ pc[c] = "join"
        /\ IsSome(http_request[c])
        /\ Unwrap(http_request[c]).code_verifier = Some("verifier")
        /\ Unwrap(authorize_url[c]).code_challenge = "challenge"
        /\ IsSome(response[c])

\* C11 (as claimed): the PKCE verifier is in no message a sign_in sends:
\* not in the authorization URL, not in the redirect response, not in the
\* token-endpoint request.
C11_VerifierNeverSent ==
    \A c \in Calls :
        op[c] = "sign_in" =>
            /\ IsSome(authorize_url[c]) =>
                 AuthorizeUrlValues(Unwrap(authorize_url[c]))
                    \cap PkceVerifiers = {}
            /\ IsSome(response[c]) =>
                 Unwrap(response[c]).body \notin PkceVerifiers
            /\ IsSome(http_request[c]) =>
                 /\ Unwrap(http_request[c]).code_verifier = None
                 /\ Unwrap(http_request[c]).code
                       \notin {Some(v) : v \in PkceVerifiers}

\* C12: a sign_in with scopes and a valid or absent redirect URI and no
\* client secret binds no listener and launches no browser, and what it
\* returns is a ConfigurationError.
C12_SecretRequired ==
    \A c \in Calls :
        (/\ op[c] = "sign_in"
         /\ IsNone(payload[c].client_secret)
         /\ payload[c].scopes \notin {None, Some(<<>>)}
         /\ \/ IsNone(payload[c].redirect_uri)
            \/ /\ Unwrap(payload[c].redirect_uri).form = "hier"
               /\ Unwrap(payload[c].redirect_uri).host
                     \in {"localhost", "127.0.0.1"}) =>
            /\ hist[c].binds = 0
            /\ hist[c].launches = 0
            /\ IsNone(listener[c])
            /\ IsNone(authorize_url[c])
            /\ pc[c] \in {"entered", "done"}
            /\ pc[c] = "done" =>
                 result[c] = Err("ConfigurationError",
                    "Client secret is required for desktop authentication")

\* a sign_in with scopes, a loopback redirect URI and no client secret has
\* returned
C12_Witness ==
    \E c \in Calls :
        /\ op[c] = "sign_in"
        /\ pc[c] = "done"
        /\ IsNone(payload[c].client_secret)
        /\ payload[c].scopes = Some(<<"email">>)
        /\ payload[c].redirect_uri = Some(LoopbackUri)
        /\ result[c].err = "ConfigurationError"
        /\ hist[c].binds = 0

\* the phase of the sign-in state machine a position of sign_in belongs to:
\* 1 Validating, 2 AwaitingRedirect, 3 ExchangingCode, 4 returned
PhaseRank(p) ==
    CASE p = "entered" -> 1
      [] p \in {"bind", "finalize", "launch", "accept", "read", "respond"} -> 2
      [] p \in {"spawn", "join"} -> 3
      [] p = "done" -> 4
      [] OTHER -> 0

\* C13: a sign_in never steps back to an earlier phase and enters a phase
\* only from the one before it (or leaves with an error); the token-endpoint
\* request is issued only while the code is being exchanged, after one
\* bind, one launch and one accepted redirect whose code and state were
\* both read; and a TokenResponse is returned only from the join of a
\* worker whose one request succeeded.
C13_PhasesInOrder ==
    [][\A c \in Calls :
          (op[c] = "sign_in" /\ op'[c] = "sign_in") =>
             /\ PhaseRank(pc'[c]) >= PhaseRank(pc[c])
             /\ \/ PhaseRank(pc'[c]) <= PhaseRank(pc[c]) + 1
                \/ /\ pc'[c] = "done"
                   /\ result'[c].kind = "Err"
             /\ hist'[c].token_requests > hist[c].token_requests =>
                  /\ PhaseRank(pc[c]) = 3
                  /\ hist[c].binds = 1
                  /\ hist[c].launches = 1
                  /\ hist[c].accepts = 1
                  /\ IsSome(authorize_url[c])
                  /\ IsSome(code[c])
                  /\ IsSome(state[c])
             /\ (pc[c] # "done" /\ pc'[c] = "done"
                   /\ result'[c].kind = "Ok") =>
                  /\ pc[c] = "join"
                  /\ hist[c].token_requests = 1
                  /\ worker[c] = "finished"
                  /\ worker_result[c].kind = "Ok"
                  /\ IsSome(result'[c].token)
    ]_vars

\* a sign_in has gone through all its phases and returned a TokenResponse
C13_Witness ==
    \E c \in Calls :
        /\ op[c] = "sign_in"
        /\ pc[c] = "done"
        /\ result[c].kind = "Ok"
        /\ IsSome(result[c].token)
        /\ hist[c].token_requests = 1
        /\ hist[c].binds = 1
        /\ hist[c].launches = 1

\* C14: a redirect with a code and without a state makes sign_in return
\* AuthenticationFailed; a redirect with a code and a state is accepted
\* whatever the state is, equal to the CSRF token of the authorization URL
\* or not, and the token request then carries the code of that redirect.
C14_StatePresenceOnly ==
    [][\A c \in Calls :
          /\ (/\ ReadStep(c)
              /\ WireHas(Unwrap(stream[c]), "code")
              /\ ~WireHas(Unwrap(stream[c]), "state")) =>
                 /\ pc'[c] = "done"
                 /\ result'[c] = Err("AuthenticationFailed",
                                     "State parameter not found in response")
          /\ CompleteRedirect(c) =>
               LET returned ==
                     PercentDecode(WireFirst(Unwrap(stream[c]), "state"))
               IN  /\ pc'[c] = "respond"
                   /\ state'[c] = Some(returned)
                   /\ csrf'[c] = csrf[c]
                   /\ Unwrap(authorize_url[c]).state = Unwrap(csrf[c])
          /\ (/\ op[c] = "sign_in"
              /\ hist'[c].token_requests > hist[c].token_requests) =>
                 /\ IsSome(state[c])
                 /\ Unwrap(http_request'[c]).code = code[c]
      ]_vars

\* the code of a redirect whose state differs from the CSRF token of the
\* authorization URL has been sent to the token endpoint
C14_Witness ==
    \E c \in Calls :
        /\ op[c] = "sign_in"
        /\ pc[c] = "join"
        /\ IsSome(state[c])
        /\ state[c] # csrf[c]
        /\ Unwrap(authorize_url[c]).state = Unwrap(csrf[c])
        /\ IsSome(http_request[c])
        /\ Unwrap(http_request[c]).code = code[c]

\* C15: one call makes at most one bind attempt, one browser launch, one
\* token-endpoint request and one revocation request (a sign_in no
\* revocation, a sign_out no token request); a call that has returned the
\* error of a bind, of a launch or of an exchange has made that step once
\* and no step after it.
C15_NoRetry ==
    \A c \in Calls :
        /\ hist[c].binds <= 1
        /\ hist[c].launches <= 1
        /\ hist[c].token_requests <= 1
        /\ hist[c].revocations <= 1
        /\ op[c] = "sign_in" => hist[c].revocations = 0
        /\ op[c] = "refresh_token" =>
             hist[c].binds + hist[c].launches + hist[c].revocations = 0
        /\ op[c] = "sign_out" =>
             hist[c].binds + hist[c].launches + hist[c].token_requests = 0
        /\ (op[c] = "sign_in" /\ pc[c] = "done"
              /\ result[c].err = "NetworkError"
              /\ result[c].msg \in {"Failed to bind to port",
                                    "Failed to bind to any available port"})
             =>
             /\ hist[c].binds = 1
             /\ hist[c].launches = 0
        /\ (op[c] = "sign_in" /\ pc[c] = "done"
              /\ result[c].err = "NetworkError"
              /\ result[c].msg = "Failed to open browser") =>
             /\ hist[c].binds = 1
             /\ hist[c].launches = 1
             /\ hist[c].accepts = 0
        /\ (pc[c] = "done"
              /\ result[c].err = "AuthenticationFailed"
              /\ result[c].msg \in {"Failed to exchange code for token",
                                    "Failed to refresh token"}) =>
             /\ hist[c].token_requests = 1
             /\ hist[c].spawns = 1

\* a sign_in has returned the error of its one failed exchange, and other
\* calls the error of a failed bind and of a failed launch
C15_Witness ==
    \E c \in Calls :
        /\ op[c] = "sign_in"
        /\ pc[c] = "done"
        /\ result[c] = Err("AuthenticationFailed",
                           "Failed to exchange code for token")
        /\ hist[c].token_requests = 1
        /\ hist[c].binds = 1
        /\ hist[c].launches = 1

\* the errors a worker's closure returns for a request that failed: the
\* token request of sign_in and of refresh_token, the revocation of sign_out
HttpLevelFailures ==
    {Err("AuthenticationFailed", "Failed to exchange code for token"),
     Err("AuthenticationFailed", "Failed to refresh token"),
     Err("NetworkError", "Failed to revoke token")}

\* C16: a call whose worker thread panicked returns an error, of kind
\* AuthenticationFailed, which is none of the errors returned for a failed
\* request; and a call whose worker ran to its end returns no error that a
\* panic produces.
C16_PanicContained ==
    \A c \in Calls :
        pc[c] = "done" =>
            /\ worker[c] = "panicked" =>
                 /\ result[c].kind = "Err"
                 /\ result[c].err = "AuthenticationFailed"
                 /\ result[c] \notin HttpLevelFailures
                 /\ \A d \in Calls :
                      (pc[d] = "done" /\ worker[d] = "finished") =>
                          result[d] # result[c]
            /\ (worker[c] = "finished" /\ hist[c].token_requests
                    + hist[c].revocations = 1
                  /\ result[c].kind = "Err") =>
                 result[c] \in HttpLevelFailures

\* a sign_in, a sign_out or a refresh_token has returned after its worker
\* panicked
C16_Witness ==
    \E c \in Calls :
        /\ pc[c] = "done"
        /\ worker[c] = "panicked"
        /\ op[c] = "sign_in"
        /\ result[c] = Err("AuthenticationFailed",
                           "Token exchange thread panicked")

\* C17: a call spawns at most one worker thread, a worker runs only while
\* its call waits in join, and when the call has returned its worker, if it
\* spawned one, has ended (finished or panicked).
C17_WorkerJoined ==
    \A c \in Calls :
        /\ hist[c].spawns <= 1
        /\ worker[c] \in {"started", "built"} => pc[c] = "join"
        /\ hist[c].spawns = 0 => worker[c] = "none"
        /\ pc[c] \in {"done", "idle"} =>
             /\ worker[c] \notin {"started", "built"}
             /\ hist[c].spawns = 1 => worker[c] \in {"finished", "panicked"}

\* a call has returned after the one worker it spawned ended
C17_Witness ==
    \E c \in Calls :
        /\ pc[c] = "done"
        /\ op[c] = "sign_out"
        /\ hist[c].spawns = 1
        /\ worker[c] = "finished"
        /\ result[c].kind = "Ok"

\* a sign_in whose browser launch succeeded
Launched(c) ==
    /\ op[c] = "sign_in"
    /\ hist[c].launches = 1
    /\ ~(pc[c] = "done" /\ result[c].msg = "Failed to open browser")

\* C18: a sign_in that launched the browser and waits for the redirect
\* leaves that wait by no step but the accept of a connection, so it has
\* returned only if a connection was accepted; and once a connection was
\* accepted and the worker's token request has completed, the call
\* returns, a result or an error.
C18_ReturnsOnlyAfterAccept ==
    /\ [][\A c \in Calls :
            /\ (op[c] = "sign_in" /\ pc[c] = "accept") =>
                 \/ /\ pc'[c] = "accept"
                    /\ result'[c] = result[c]
                 \/ /\ pc'[c] = "read"
                    /\ hist'[c].accepts = hist[c].accepts + 1
            /\ (Launched(c)' /\ pc'[c] = "done") => hist'[c].accepts = 1
       ]_vars
    /\ \A c \in Calls :
         (/\ op[c] = "sign_in"
          /\ hist[c].accepts = 1
          /\ hist[c].token_requests = 1
          /\ pc[c] = "join")
            ~> (/\ op[c] = "sign_in"
                /\ pc[c] = "done"
                /\ result[c].kind \in {"Ok", "Err"})

\* a sign_in that launched the browser has returned, after the connection
\* was accepted and the token request completed
C18_Witness ==
    \E c \in Calls :
        /\ Launched(c)
        /\ pc[c] = "done"
        /\ hist[c].accepts = 1
        /\ hist[c].token_requests = 1
        /\ worker[c] = "finished"

\* C19 (as claimed): while the token exchange of a sign_in is in progress,
\* after the 200 OK was written, the listener of that call is no longer
\* bound.
C19_ListenerClosedDuringExchange ==
    \A c \in Calls :
        (/\ op[c] = "sign_in"
         /\ hist[c].responses = 1
         /\ worker[c] \in {"started", "built"}) =>
            IsNone(listener[c])

\* C20: a call that has returned, with a result or with any error, holds no
\* listener, no connection, no running worker, no PKCE verifier, no CSRF
\* token, no authorization code and no other local; and when the caller
\* has taken the results the state is the initial one, so a later call
\* starts as the first call did.
C20_NothingSurvives ==
    /\ \A c \in Calls :
         pc[c] \in {"done", "idle"} =>
            /\ IsNone(listener[c])
            /\ IsNone(stream[c])
            /\ worker[c] \notin {"started", "built"}
            /\ IsNone(pkce[c])
            /\ IsNone(csrf[c])
            /\ IsNone(code[c])
            /\ IsNone(state[c])
            /\ IsNone(redirect_host[c])
            /\ IsNone(port[c])
            /\ IsNone(redirect_url[c])
    /\ (\A c \in Calls : pc[c] = "idle") => Init

\* a sign_in that had bound a listener, accepted a connection and read a
\* code has returned an error of the exchange, and holds none of them
C20_Witness ==
    \E c \in Calls :
        /\ op[c] = "sign_in"
        /\ pc[c] = "done"
        /\ result[c].kind = "Err"
        /\ hist[c].binds = 1
        /\ hist[c].accepts = 1
        /\ hist[c].spawns = 1
        /\ IsNone(listener[c])
        /\ IsNone(stream[c])
        /\ IsNone(pkce[c])
        /\ IsNone(code[c])

\* call c is a sign_in that holds its listener
HoldsListener(c) == op[c] = "sign_in" /\ IsSome(listener[c])

\* in this step call c makes its bind attempt while call d, which names the
\* same port in its redirect URI, holds its listener
BindsSecond(c, d) ==
    /\ c # d
    /\ op[c] = "sign_in"
    /\ hist'[c].binds > hist[c].binds
    /\ HoldsListener(d)
    /\ NamesPort(c)
    /\ NamesPort(d)
    /\ Unwrap(payload[c].redirect_uri).port
          = Unwrap(payload[d].redirect_uri).port

\* the step leaves everything of call d as it was
Unaffected(d) ==
    /\ pc'[d] = pc[d]
    /\ result'[d] = result[d]
    /\ listener'[d] = listener[d]
    /\ redirect_url'[d] = redirect_url[d]
    /\ stream'[d] = stream[d]
    /\ hist'[d] = hist[d]
    /\ worker'[d] = worker[d]

\* C21 (as claimed): two sign_in calls in flight never hold a listener on
\* the same port; and the bind attempt of a call that names the port
\* another call's listener was bound for fails with a NetworkError, before
\* any browser launch, and changes nothing of the other call.
C21_NoSharedPort ==
    [][\A c, d \in Calls :
          /\ (c # d /\ HoldsListener(c)' /\ HoldsListener(d)') =>
                listener'[c] # listener'[d]
          /\ BindsSecond(c, d) =>
                /\ pc'[c] = "done"
                /\ result'[c].kind = "Err"
                /\ result'[c].err = "NetworkError"
                /\ hist'[c].launches = 0
                /\ IsNone(listener'[c])
                /\ Unaffected(d)
      ]_vars

\* the request line call c accepted has a request path that parses and
\* carries both a code and a state
CarriesCodeAndState(line) ==
    /\ line.ntokens >= 2
    /\ line.path.parses
    /\ WireHas(line, "code")
    /\ WireHas(line, "state")

\* C22: sign_in writes a response to the accepted connection only in the
\* step after it read a request line that carries both code and state, and
\* that response is the 200 OK; a call that read a malformed line, or one
\* without code or without state, or that failed to read, returns its error
\* with nothing written to the connection.
C22_AnswerOnlyCompleteRedirect ==
    [][\A c \in Calls :
          op[c] = "sign_in" =>
             /\ (response'[c] # response[c] /\ op'[c] = "sign_in") =>
                  /\ pc[c] = "respond"
                  /\ IsSome(stream[c])
                  /\ CarriesCodeAndState(Unwrap(stream[c]))
                  /\ IsSome(code[c])
                  /\ IsSome(state[c])
                  /\ IsNone(response[c])
                  /\ Unwrap(response'[c]).status = 200
                  /\ hist'[c].responses = 1
             /\ (/\ pc[c] = "read"
                 /\ pc'[c] # "read"
                 /\ ~CarriesCodeAndState(Unwrap(stream[c]))) =>
                  /\ pc'[c] = "done"
                  /\ result'[c].kind = "Err"
                  /\ IsNone(response'[c])
                  /\ hist'[c].responses = 0
                  /\ IsNone(stream'[c])
             /\ (pc[c] = "read" /\ pc'[c] = "done") =>
                  /\ IsNone(response'[c])
                  /\ hist'[c].responses = 0
      ]_vars

\* a sign_in has returned the error of a redirect that had a code and no
\* state, and another the error of a malformed line, with no response
\* written
C22_Witness ==
    \E c \in Calls :
        /\ op[c] = "sign_in"
        /\ pc[c] = "done"
        /\ hist[c].accepts = 1
        /\ result[c].msg \in {"State parameter not found in response",
                              "Invalid HTTP request format"}
        /\ IsNone(response[c])
        /\ hist[c].responses = 0

====
